---- MODULE Spec2Model ----
(***************************************************************************)
(* The MagicQ showfile codec of rust-magicq: the parser and the Display    *)
(* implementations of src/showfile.rs, and the older parser and            *)
(* showfile_writer of src/lib.rs that the generated tests exercise.        *)
(*                                                                         *)
(* A text is a sequence of one-character strings.  A parser takes a text s *)
(* and a position i (1-based; i = Len(s) + 1 is the end of input) and      *)
(* returns a record [st, pos, val]: st = "ok" with the position after what *)
(* it consumed and the value, st = "err" for nom's recoverable Err::Error, *)
(* st = "inc" for Err::Incomplete, which only the streaming `double` can   *)
(* produce and which alt, many1 and many_till pass on without trying       *)
(* anything else.                                                          *)
(***************************************************************************)
EXTENDS Integers, Sequences, FiniteSets, TLC

(***************************************************************************)
(* Bounds of the explored inputs.                                          *)
(***************************************************************************)
\* header lines, sections and fields of one typed text, and its line breaks
\* after the header lines
MaxHeaders == 1
MaxSections == 2
MaxFields == 2
MaxBreaks == 2

(***************************************************************************)
(* Character classes (nom::character).                                     *)
(***************************************************************************)
Digits == {"0", "1", "2", "3", "4", "5", "6", "7", "8", "9"}

HexLower == {"a", "b", "c", "d", "e", "f"}

HexUpper == {"A", "B", "C", "D", "E", "F"}

Letters ==
    {"a", "b", "c", "d", "e", "f", "g", "h", "i", "j", "k", "l", "m",
     "n", "o", "p", "q", "r", "s", "t", "u", "v", "w", "x", "y", "z",
     "A", "B", "C", "D", "E", "F", "G", "H", "I", "J", "K", "L", "M",
     "N", "O", "P", "Q", "R", "S", "T", "U", "V", "W", "X", "Y", "Z"}

HexDigits == Digits \cup HexLower \cup HexUpper

Alphanumerics == Digits \cup Letters

LF == <<"\n">>

CRLF == <<"\r", "\n">>

(***************************************************************************)
(* Parser results, and the sequencing of nom's tuple, terminated,          *)
(* delimited (Then: go on after a success, pass a failure on) and alt      *)
(* (Alt: the next alternative after a recoverable error only).             *)
(***************************************************************************)
Ok(p, v) == [st |-> "ok", pos |-> p, val |-> v]

Error(p) == [st |-> "err", pos |-> p, val |-> <<>>]

Incomplete(p) == [st |-> "inc", pos |-> p, val |-> <<>>]

With(r, K(_)) == K(r)

Then(r, K(_)) == IF r.st = "ok" THEN K(r) ELSE r

Alt(r, other) == IF r.st = "err" THEN other ELSE r

AtEnd(s, i) == i > Len(s)

(***************************************************************************)
(* nom combinators used by the grammar.                                    *)
(***************************************************************************)
tag(s, i, t) ==
    IF i + Len(t) - 1 <= Len(s) /\ SubSeq(s, i, i + Len(t) - 1) = t
    THEN Ok(i + Len(t), t)
    ELSE Error(i)

line_ending(s, i) == Alt(tag(s, i, LF), tag(s, i, CRLF))

\* many0(line_ending): the position after the run and the number of breaks.
RECURSIVE many0_line_ending(_, _, _)
many0_line_ending(s, i, n) ==
    With(line_ending(s, i), LAMBDA r :
        IF r.st = "ok" THEN many0_line_ending(s, r.pos, n + 1) ELSE Ok(i, n))

\* a run of line breaks counted as one break whatever its length
many1_line_ending_counted_once(s, i) ==
    With(many0_line_ending(s, i, 0), LAMBDA r :
        IF r.val = 0 THEN Error(i) ELSE Ok(r.pos, 1))

many1_line_ending(s, i) ==
    With(many0_line_ending(s, i, 0), LAMBDA r :
        IF r.val = 0 THEN Error(i) ELSE r)

\* The first position at or after i whose character is not in class.
RECURSIVE take_while(_, _, _)
take_while(s, i, class) ==
    IF ~AtEnd(s, i) /\ s[i] \in class THEN take_while(s, i + 1, class) ELSE i

hex_digit1(s, i) ==
    With(take_while(s, i, HexDigits), LAMBDA e :
        IF e > i THEN Ok(e, SubSeq(s, i, e - 1)) ELSE Error(i))

\* an identifier parser that also accepts the empty run
alphanumeric0(s, i) ==
    With(take_while(s, i, Alphanumerics), LAMBDA e :
        Ok(e, SubSeq(s, i, e - 1)))

alphanumeric1(s, i) ==
    With(take_while(s, i, Alphanumerics), LAMBDA e :
        IF e > i THEN Ok(e, SubSeq(s, i, e - 1)) ELSE Error(i))

\* not_line_ending (complete): up to the first \r or \n; a \r that does not
\* start \r\n is an error; without any line break it takes the whole rest.
RECURSIVE not_line_ending(_, _, _)
not_line_ending(s, start, i) ==
    IF AtEnd(s, i) THEN Ok(i, SubSeq(s, start, i - 1))
    ELSE IF s[i] = "\n" THEN Ok(i, SubSeq(s, start, i - 1))
    ELSE IF s[i] = "\r"
         THEN IF tag(s, i, CRLF).st = "ok"
              THEN Ok(i, SubSeq(s, start, i - 1))
              ELSE Error(start)
    ELSE not_line_ending(s, start, i + 1)

\* escaped(none_of("\""), '\\', char('"')): the normal parser takes any
\* character but the quote, the backslash included, so the loop stops at the
\* first quote whether or not a backslash precedes it.
RECURSIVE escaped(_, _, _)
escaped(s, start, i) ==
    IF AtEnd(s, i) THEN Ok(i, SubSeq(s, start, i - 1))
    ELSE IF s[i] # "\"" THEN escaped(s, start, i + 1)
    ELSE IF s[i] = "\\"
         THEN IF AtEnd(s, i + 1) THEN Error(start)
              ELSE IF s[i + 1] = "\"" THEN escaped(s, start, i + 2)
              ELSE Error(start)
    ELSE IF i = start THEN Error(start)
    ELSE Ok(i, SubSeq(s, start, i - 1))

(***************************************************************************)
(* Values (showfile.rs, enum Value).  A Hex holds its u64 as the sequence  *)
(* of its base-16 digits without leading zeros (most significant first,    *)
(* <<>> is zero) and the width; a Float holds the exact decimal it was     *)
(* read from: the integer digits without leading zeros and the fraction    *)
(* digits without trailing zeros.                                          *)
(***************************************************************************)
LowerDigits ==
    <<"0", "1", "2", "3", "4", "5", "6", "7", "8", "9",
      "a", "b", "c", "d", "e", "f">>

UpperDigits ==
    <<"0", "1", "2", "3", "4", "5", "6", "7", "8", "9",
      "A", "B", "C", "D", "E", "F">>

to_digit(c) ==
    CHOOSE n \in 0..15 : LowerDigits[n + 1] = c \/ UpperDigits[n + 1] = c

RECURSIVE StripLeading(_, _)
StripLeading(q, z) ==
    IF q # <<>> /\ Head(q) = z THEN StripLeading(Tail(q), z) ELSE q

RECURSIVE StripTrailing(_, _)
StripTrailing(q, z) ==
    IF q # <<>> /\ q[Len(q)] = z
    THEN StripTrailing(SubSeq(q, 1, Len(q) - 1), z)
    ELSE q

Repeat(t, n) == [k \in 1..(n * Len(t)) |-> t[((k - 1) % Len(t)) + 1]]

U64HexDigits == 16

\* u64::from_str_radix(h, 16): fails when the value does not fit 64 bits.
from_str_radix(h) ==
    With(StripLeading([k \in 1..Len(h) |-> to_digit(h[k])], 0), LAMBDA v :
        IF Len(v) > U64HexDigits THEN Error(1) ELSE Ok(1, v))

String(t) == [kind |-> "String", s |-> t]

Hex(v, w) == [kind |-> "Hex", v |-> v, w |-> w]

Float(neg, int, frac) ==
    [kind |-> "Float", nan |-> FALSE, neg |-> neg, int |-> int, frac |-> frac]

NaN(neg) ==
    [kind |-> "Float", nan |-> TRUE, neg |-> neg, int |-> <<>>, frac |-> <<>>]

(***************************************************************************)
(* nom::number::streaming::double: a sign, integer digits from a, a dot at *)
(* b and fraction digits up to c.  The texts explored hold no 'e' or 'E'   *)
(* after a mantissa, so the exponent is not modelled.  Being the streaming *)
(* flavour it answers Incomplete whenever the number runs to the end of    *)
(* the input.                                                              *)
(***************************************************************************)
double_parts(s, i, a, b, c) ==
    IF AtEnd(s, c) THEN Incomplete(i)
    ELSE IF b = a /\ c <= b + 1 THEN Error(i)
    ELSE Ok(c, Float(s[i] = "-",
                     StripLeading(SubSeq(s, a, b - 1), "0"),
                     IF c > b + 1
                     THEN StripTrailing(SubSeq(s, b + 1, c - 1), "0")
                     ELSE <<>>))

double(s, i) ==
    IF AtEnd(s, i) THEN Incomplete(i)
    ELSE With(IF s[i] \in {"+", "-"} THEN i + 1 ELSE i, LAMBDA a :
         With(take_while(s, a, Digits), LAMBDA b :
             IF AtEnd(s, b) THEN Incomplete(i)
             ELSE IF s[b] = "."
                  THEN double_parts(s, i, a, b, take_while(s, b + 1, Digits))
                  ELSE double_parts(s, i, a, b, b)))

(***************************************************************************)
(* Field grammar (showfile.rs, impl Value).  A field parser returns the    *)
(* pair <<value, followed by a consumed comma>>.                           *)
(***************************************************************************)
\* alt((tag(","), peek(tag(";")), peek(line_ending))) of the three parsers
\* a delimiter that consumes the line break instead of peeking at it
delimiter_consuming_break(s, i) ==
    IF tag(s, i, <<",">>).st = "ok" THEN Ok(i + 1, TRUE)
    ELSE IF tag(s, i, <<";">>).st = "ok" THEN Ok(i, FALSE)
    ELSE IF line_ending(s, i).st = "ok" THEN Ok(line_ending(s, i).pos, FALSE)
    ELSE Error(i)

delimiter(s, i) ==
    IF tag(s, i, <<",">>).st = "ok" THEN Ok(i + 1, TRUE)
    ELSE IF tag(s, i, <<";">>).st = "ok" THEN Ok(i, FALSE)
    ELSE IF line_ending(s, i).st = "ok" THEN Ok(i, FALSE)
    ELSE Error(i)

\* delimited(char('"'), escaped(...), char('"'))
quoted(s, i) ==
    Then(tag(s, i, <<"\"">>), LAMBDA open :
    Then(escaped(s, open.pos, open.pos), LAMBDA body :
    Then(tag(s, body.pos, <<"\"">>), LAMBDA close :
        Ok(close.pos, body.val))))

Value_parse_string(s, i) ==
    Then(Alt(quoted(s, i),
             Then(tag(s, i, <<"\"", "\"">>), LAMBDA e : Ok(e.pos, <<>>))),
         LAMBDA text :
    Then(delimiter(s, text.pos), LAMBDA d :
        Ok(d.pos, <<String(text.val), d.val>>)))

Value_parse_hex(s, i) ==
    Then(hex_digit1(s, i), LAMBDA h :
    Then(delimiter(s, h.pos), LAMBDA d :
    Then(from_str_radix(h.val), LAMBDA v :
        Ok(d.pos, <<Hex(v.val, h.pos - i), d.val>>))))

\* showfile.rs: alt((double, tag("nan"), tag("-nan")))
Value_parse_float(s, i) ==
    Then(Alt(double(s, i),
         Alt(Then(tag(s, i, <<"n", "a", "n">>), LAMBDA t :
                 Ok(t.pos, NaN(FALSE))),
             Then(tag(s, i, <<"-", "n", "a", "n">>), LAMBDA t :
                 Ok(t.pos, NaN(TRUE))))),
         LAMBDA f :
    Then(delimiter(s, f.pos), LAMBDA d : Ok(d.pos, <<f.val, d.val>>)))

\* lib.rs: alt((double, tag("nan"))), no signed NaN
parse_float(s, i) ==
    Then(Alt(double(s, i),
             Then(tag(s, i, <<"n", "a", "n">>), LAMBDA t :
                 Ok(t.pos, NaN(FALSE)))),
         LAMBDA f :
    Then(delimiter(s, f.pos), LAMBDA d : Ok(d.pos, <<f.val, d.val>>)))

\* Value::parse with Float tried before Hex
Value_parse_float_before_hex(s, i) ==
    Alt(Value_parse_string(s, i),
        Alt(Value_parse_float(s, i), Value_parse_hex(s, i)))

\* alt((parse_string, parse_hex, parse_float)): the first success wins
Value_parse(s, i) ==
    Alt(Value_parse_string(s, i),
        Alt(Value_parse_hex(s, i), Value_parse_float(s, i)))

csv_field(s, i) ==
    Alt(Value_parse_string(s, i),
        Alt(Value_parse_hex(s, i), parse_float(s, i)))

(***************************************************************************)
(* impl Display for Value (showfile.rs).  {:.6} pads the fraction to six   *)
(* digits and rounds longer ones.                                          *)
(***************************************************************************)
FloatPrecision == 6

UpperCaseWidth == 16

\* {:0width$x} and {:0width$X}
HexText(v, w, digits) ==
    With(IF v = <<>> THEN <<"0">> ELSE [k \in 1..Len(v) |-> digits[v[k] + 1]],
         LAMBDA body :
        Repeat(<<"0">>, IF w > Len(body) THEN w - Len(body) ELSE 0) \o body)

\* the decimal digit sequence q plus one in its last place
RECURSIVE Increment(_)
Increment(q) ==
    IF q = <<>> THEN <<"1">>
    ELSE IF q[Len(q)] = "9"
         THEN Increment(SubSeq(q, 1, Len(q) - 1)) \o <<"0">>
         ELSE SubSeq(q, 1, Len(q) - 1)
              \o <<LowerDigits[to_digit(q[Len(q)]) + 2]>>

\* {:.6}: six fraction digits, the value rounded to the nearest.  The texts
\* explored hold no fraction that lies exactly halfway (a seventh digit 5
\* followed by nothing but zeros), where the binary value would decide.
FixedDigits(x) ==
    With((IF x.int = <<>> THEN <<"0">> ELSE x.int)
         \o (IF Len(x.frac) > FloatPrecision
             THEN SubSeq(x.frac, 1, FloatPrecision)
             ELSE x.frac \o Repeat(<<"0">>, FloatPrecision - Len(x.frac))),
         LAMBDA kept :
        IF Len(x.frac) > FloatPrecision
           /\ to_digit(x.frac[FloatPrecision + 1]) >= 5
        THEN Increment(kept)
        ELSE kept)

FixedText(x) ==
    With(FixedDigits(x), LAMBDA all :
        (IF x.neg THEN <<"-">> ELSE <<>>)
        \o SubSeq(all, 1, Len(all) - FloatPrecision)
        \o <<".">>
        \o SubSeq(all, Len(all) - FloatPrecision + 1, Len(all)))

Value_fmt(x) ==
    IF x.kind = "Float"
    THEN IF x.nan
         THEN IF ~x.neg THEN <<"n", "a", "n">> ELSE <<"-", "n", "a", "n">>
         ELSE FixedText(x)
    ELSE IF x.kind = "String" THEN <<"\"">> \o x.s \o <<"\"">>
    ELSE IF x.w = UpperCaseWidth THEN HexText(x.v, x.w, UpperDigits)
    ELSE HexText(x.v, x.w, LowerDigits)

\* impl Display for Value (lib.rs): every NaN is written as nan
lib_Value_fmt(x) ==
    IF x.kind = "Float" /\ x.nan THEN <<"n", "a", "n">> ELSE Value_fmt(x)

(***************************************************************************)
(* Section identifiers (showfile.rs, enum SectionIdentifier).              *)
(***************************************************************************)
Known(name) == [id |-> name, code |-> <<>>]

Unknown(c) == [id |-> "Unknown", code |-> c]

from_code(c) ==
    CASE c = <<"V">> -> Known("Version")
      [] c = <<"T">> -> Known("Settings")
      [] c = <<"P">> -> Known("Head")
      [] c = <<"L">> -> Known("Fixture")
      [] c = <<"F">> -> Known("Palette")
      [] c = <<"G">> -> Known("Group")
      [] c = <<"W">> -> Known("FX")
      [] c = <<"S">> -> Known("Playback")
      [] c = <<"C">> -> Known("CueStack")
      [] c = <<"M">> -> Known("ExecutePage")
      [] c = <<"N">> -> Known("ExecuteItem")
      [] OTHER -> Unknown(c)

\* to_code with the code of Head given to Palette as well
to_code_palette_as_head(k) ==
    CASE k.id = "Version" -> <<"V">>
      [] k.id = "Settings" -> <<"T">>
      [] k.id = "Head" -> <<"P">>
      [] k.id = "Fixture" -> <<"L">>
      [] k.id = "Palette" -> <<"P">>
      [] k.id = "Group" -> <<"G">>
      [] k.id = "FX" -> <<"W">>
      [] k.id = "Playback" -> <<"S">>
      [] k.id = "CueStack" -> <<"C">>
      [] k.id = "ExecutePage" -> <<"M">>
      [] k.id = "ExecuteItem" -> <<"N">>
      [] k.id = "Unknown" -> k.code

to_code(k) ==
    CASE k.id = "Version" -> <<"V">>
      [] k.id = "Settings" -> <<"T">>
      [] k.id = "Head" -> <<"P">>
      [] k.id = "Fixture" -> <<"L">>
      [] k.id = "Palette" -> <<"F">>
      [] k.id = "Group" -> <<"G">>
      [] k.id = "FX" -> <<"W">>
      [] k.id = "Playback" -> <<"S">>
      [] k.id = "CueStack" -> <<"C">>
      [] k.id = "ExecutePage" -> <<"M">>
      [] k.id = "ExecuteItem" -> <<"N">>
      [] k.id = "Unknown" -> k.code

\* lib.rs: the same table, with the kind of "T" named File
lib_from_code(c) == IF c = <<"T">> THEN Known("File") ELSE from_code(c)

lib_to_code(k) == IF k.id = "File" THEN <<"T">> ELSE to_code(k)

\* map(alphanumeric1, SectionIdentifier::from_code)
SectionIdentifier_parse(s, i) ==
    Then(alphanumeric1(s, i), LAMBDA c : Ok(c.pos, from_code(c.val)))

(***************************************************************************)
(* Header, Row, Section and Showfile grammar (showfile.rs).  The flag lib  *)
(* selects the field parser of lib.rs (csv_field), which is the only place *)
(* where the two grammars differ.                                          *)
(***************************************************************************)
Header_parse(s, i) ==
    Then(tag(s, i, <<"\\", " ">>), LAMBDA m :
    Then(not_line_ending(s, m.pos, m.pos), LAMBDA t :
    Then(line_ending(s, t.pos), LAMBDA e : Ok(e.pos, t.val))))

\* many1(Header::parse)
RECURSIVE many1_Header_parse(_, _, _)
many1_Header_parse(s, i, acc) ==
    With(Header_parse(s, i), LAMBDA r :
        IF r.st = "ok" THEN many1_Header_parse(s, r.pos, Append(acc, r.val))
        ELSE IF acc = <<>> THEN Error(i)
        ELSE Ok(i, acc))

\* many1(Value::parse): the pairs <<value, comma>> of the fields of one row
RECURSIVE many1_Value_parse(_, _, _, _)
many1_Value_parse(s, i, acc, lib) ==
    With(IF lib THEN csv_field(s, i) ELSE Value_parse(s, i), LAMBDA r :
        IF r.st = "ok"
        THEN many1_Value_parse(s, r.pos, Append(acc, r.val), lib)
        ELSE IF r.st = "inc" THEN r
        ELSE IF acc = <<>> THEN Error(i)
        ELSE Ok(i, acc))

Row_new(values, trailing_comma, trailing_newlines) ==
    [values |-> values, trailing_comma |-> trailing_comma,
     trailing_newlines |-> trailing_newlines]

\* the closure collecting every value but the last
Row_of_without_last(r, n) ==
    Row_new([k \in 1..(Len(r) - 1) |-> r[k][1]],
            IF r = <<>> THEN FALSE ELSE r[Len(r)][2],
            n)

\* the closure taking the comma of the first field instead of the last
Row_of_first_comma(r, n) ==
    Row_new([k \in 1..Len(r) |-> r[k][1]],
            IF r = <<>> THEN FALSE ELSE r[1][2],
            n)

\* the closure of Row::parse over the pairs r and the line-break count n
Row_of(r, n) ==
    Row_new([k \in 1..Len(r) |-> r[k][1]],
            IF r = <<>> THEN FALSE ELSE r[Len(r)][2],
            n)

RowGrammar(s, i, lib) ==
    Then(many1_Value_parse(s, i, <<>>, lib), LAMBDA r :
    Then(Alt(many1_line_ending(s, r.pos),
             Then(tag(s, r.pos, <<";">>), LAMBDA t : Ok(r.pos, 0))),
         LAMBDA n :
        Ok(n.pos, Row_of(r.val, n.val))))

Row_parse(s, i) == RowGrammar(s, i, FALSE)

csv_row(s, i) == RowGrammar(s, i, TRUE)

\* many1(Row::parse)
RECURSIVE many1_Row_parse(_, _, _, _)
many1_Row_parse(s, i, acc, lib) ==
    With(RowGrammar(s, i, lib), LAMBDA r :
        IF r.st = "ok" THEN many1_Row_parse(s, r.pos, Append(acc, r.val), lib)
        ELSE IF r.st = "inc" THEN r
        ELSE IF acc = <<>> THEN Error(i)
        ELSE Ok(i, acc))

Section_new(identifier, rows, trailing_newlines) ==
    [identifier |-> identifier, rows |-> rows,
     trailing_newlines |-> trailing_newlines]

SectionGrammar(s, i, lib) ==
    Then(SectionIdentifier_parse(s, i), LAMBDA id :
    Then(tag(s, id.pos, <<",">>), LAMBDA c :
    Then(many1_Row_parse(s, c.pos, <<>>, lib), LAMBDA rows :
    Then(tag(s, rows.pos, <<";">>), LAMBDA t :
    Then(many0_line_ending(s, t.pos, 0), LAMBDA nl :
        Ok(nl.pos, Section_new(id.val, rows.val, nl.val)))))))

Section_parse(s, i) == SectionGrammar(s, i, FALSE)

section_parser(s, i) == SectionGrammar(s, i, TRUE)

\* many_till(Section::parse, eof)
RECURSIVE many_till_Section_parse(_, _, _, _)
many_till_Section_parse(s, i, acc, lib) ==
    IF AtEnd(s, i) THEN Ok(i, acc)
    ELSE Then(SectionGrammar(s, i, lib), LAMBDA r :
             many_till_Section_parse(s, r.pos, Append(acc, r.val), lib))

Showfile_new(headers, sections) == [headers |-> headers, sections |-> sections]

ShowfileGrammar(s, lib) ==
    Then(many1_Header_parse(s, 1, <<>>), LAMBDA h :
    Then(many1_line_ending(s, h.pos), LAMBDA sep :
    Then(many_till_Section_parse(s, sep.pos, <<>>, lib), LAMBDA body :
        Ok(body.pos, Showfile_new(h.val, body.val)))))

Showfile_parse(s) == ShowfileGrammar(s, FALSE)

showfile_parser(s) == ShowfileGrammar(s, TRUE)

(***************************************************************************)
(* Display (showfile.rs): every line break is the static LINE_RETURN.      *)
(***************************************************************************)
LINE_RETURN == LF

Header_fmt(h) == <<"\\", " ">> \o h \o LINE_RETURN

\* the loop of Row::fmt from the value of index i - 1 on
RECURSIVE Row_fmt_values(_, _)
Row_fmt_values(row, i) ==
    IF i > Len(row.values) THEN <<>>
    ELSE Value_fmt(row.values[i])
         \o (IF (i - 1) # Len(row.values) - 1 \/ row.trailing_comma
             THEN <<",">>
             ELSE <<>>)
         \o Row_fmt_values(row, i + 1)

Row_fmt(row) ==
    Row_fmt_values(row, 1) \o Repeat(LINE_RETURN, row.trailing_newlines)

RECURSIVE Section_fmt_rows(_, _)
Section_fmt_rows(rows, i) ==
    IF i > Len(rows) THEN <<>>
    ELSE Row_fmt(rows[i]) \o Section_fmt_rows(rows, i + 1)

\* Display for Section writing a single line break for any positive count
Section_fmt_single_break(sec) ==
    to_code(sec.identifier) \o <<",">>
    \o Section_fmt_rows(sec.rows, 1)
    \o <<";">>
    \o (IF sec.trailing_newlines > 0 THEN LINE_RETURN ELSE <<>>)

Section_fmt(sec) ==
    to_code(sec.identifier) \o <<",">>
    \o Section_fmt_rows(sec.rows, 1)
    \o <<";">>
    \o Repeat(LINE_RETURN, sec.trailing_newlines)

RECURSIVE Showfile_fmt_headers(_, _)
Showfile_fmt_headers(hs, i) ==
    IF i > Len(hs) THEN <<>>
    ELSE Header_fmt(hs[i]) \o Showfile_fmt_headers(hs, i + 1)

RECURSIVE Showfile_fmt_sections(_, _)
Showfile_fmt_sections(secs, i) ==
    IF i > Len(secs) THEN <<>>
    ELSE Section_fmt(secs[i]) \o Showfile_fmt_sections(secs, i + 1)

Showfile_fmt(sf) ==
    Showfile_fmt_headers(sf.headers, 1)
    \o LINE_RETURN
    \o Showfile_fmt_sections(sf.sections, 1)

\* Row::fmt computes self.values.len() - 1 in usize before its loop: for a
\* row without values the subtraction overflows.
Row_fmt_overflows(row) == row.values = <<>>

Showfile_fmt_overflows(sf) ==
    \E k \in 1..Len(sf.sections) :
        \E j \in 1..Len(sf.sections[k].rows) :
            Row_fmt_overflows(sf.sections[k].rows[j])

\* to_string(): the overflow panics in a build with overflow checks and
\* wraps in one without, where the loop over no values then writes nothing.
to_string(sf) ==
    {[st |-> "ok", text |-> Showfile_fmt(sf)]}
    \cup (IF Showfile_fmt_overflows(sf)
          THEN {[st |-> "panic", text |-> <<>>]}
          ELSE {})

(***************************************************************************)
(* showfile_writer (lib.rs): a string buffer sb, pushed to and popped      *)
(* from; every line break is the local line_return, "\r\n".                *)
(***************************************************************************)
line_return == CRLF

pop(sb) == IF sb = <<>> THEN sb ELSE SubSeq(sb, 1, Len(sb) - 1)

RECURSIVE writer_values(_, _, _)
writer_values(sb, values, i) ==
    IF i > Len(values) THEN sb
    ELSE writer_values(sb \o lib_Value_fmt(values[i]) \o <<",">>, values, i + 1)

writer_row(sb, row) ==
    (IF ~row.trailing_comma
     THEN pop(writer_values(sb, row.values, 1))
     ELSE writer_values(sb, row.values, 1))
    \o Repeat(line_return, row.trailing_newlines)

RECURSIVE writer_rows(_, _, _)
writer_rows(sb, rows, i) ==
    IF i > Len(rows) THEN sb
    ELSE writer_rows(writer_row(sb, rows[i]), rows, i + 1)

RECURSIVE writer_sections(_, _, _)
writer_sections(sb, secs, i) ==
    IF i > Len(secs) THEN sb
    ELSE writer_sections(
             writer_rows(sb \o to_code(secs[i].identifier) \o <<",">>,
                         secs[i].rows, 1)
             \o <<";">>
             \o Repeat(line_return, secs[i].trailing_newlines),
             secs, i + 1)

RECURSIVE writer_headers(_, _, _)
writer_headers(sb, hs, i) ==
    IF i > Len(hs) THEN sb
    ELSE writer_headers(sb \o <<"\\", " ">> \o hs[i] \o line_return, hs, i + 1)

showfile_writer(sf) ==
    writer_sections(writer_headers(<<>>, sf.headers, 1) \o line_return,
                    sf.sections, 1)

(***************************************************************************)
(* The state machine.  A showfile text is typed token by token by whoever  *)
(* produced the file (the console, or an editor), with either line-ending  *)
(* style; at any point the text typed so far is handed to the codec:       *)
(* Showfile::from_str, then to_string, then from_str again, or the         *)
(* generated test of tests/shows.rs over showfile_parser/showfile_writer.  *)
(* status is the outcome of the parse: "ok", "err" (Err::Error, which      *)
(* from_str returns as Err(String)) or "inc" (Err::Incomplete, on which    *)
(* finish() panics).                                                       *)
(***************************************************************************)
VARIABLES input, eol, typist, pc, status, rest, showfile, output,
          status2, showfile2, value, comma, identifier, identifier2,
          unit, pairs

vars == <<input, eol, typist, pc, status, rest, showfile, output,
          status2, showfile2, value, comma, identifier, identifier2,
          unit, pairs>>

NoValue == [kind |-> "None"]

NoIdentifier == [id |-> "None", code |-> <<>>]

NoShowfile == Showfile_new(<<>>, <<>>)

HeaderText == <<"h">>

Codes == {<<"V">>}

FieldTokens == {<<"\"", "A", "\"">>, <<"1">>}

\* The end-to-end scenario of the specification, and the same text with the
\* blank line of the format between the header and the section.
EndToEndBody ==
    <<"V", ",", "\"", "M", "a", "g", "i", "c", "Q", " ", "1", "\"", ",",
      "0", "1", "0", "9", "0", "3", "0", "7", ",",
      "0", "0", "0", "2", ",", "0", "0", "0", "3", ";">>

EndToEndHeader == <<"\\", " ", "M", "y", "S", "h", "o", "w">>

EndToEnd == EndToEndHeader \o LF \o EndToEndBody

EndToEndSeparated == EndToEndHeader \o LF \o LF \o EndToEndBody

\* a Float field with seven fraction digits
PrecisionText ==
    <<"\\", " ", "h">> \o LF \o LF
    \o <<"V", ",", "0", ".", "0", "0", "0", "0", "0", "0", "1", ";">>

\* an unknown code, an upper-case Hex, both NaN and a Float, with blank lines
MixedText ==
    <<"\\", " ", "h">> \o LF \o LF
    \o <<"Z", ",", "\"", "A", "\"", ",", "0", "0", "F", "F", ";">> \o LF \o LF
    \o <<"V", ",", "-", "n", "a", "n", ",", "0", ".", "5">> \o LF
    \o <<"n", "a", "n", ";">> \o LF

\* two sections and three rows: two line breaks after the first row, none
\* after the second, two between the sections and one at the end
BlankLinesText(e) ==
    <<"\\", " ", "h">> \o e \o e
    \o <<"V", ",", "1", ",">> \o e \o e \o <<"0", "2", ";">> \o e \o e
    \o <<"Z", ",", "1", ";">> \o e

\* a section cut off after its first field, after a complete section
TruncatedText ==
    <<"\\", " ", "h">> \o LF \o LF
    \o <<"V", ",", "1", ";">> \o LF \o <<"V", ",", "1">>

\* a section without a row, after a complete section
NoRowText ==
    <<"\\", " ", "h">> \o LF \o LF
    \o <<"V", ",", "1", ";">> \o LF \o <<"V", ",", ";">>

Scenarios ==
    {EndToEnd, EndToEndSeparated, PrecisionText, MixedText,
     BlankLinesText(LF), BlankLinesText(CRLF), TruncatedText, NoRowText}

Typist(phase, headers, sections, fields, breaks) ==
    [phase |-> phase, headers |-> headers, sections |-> sections,
     fields |-> fields, breaks |-> breaks]

Blank ==
    /\ status = "none"
    /\ rest = 0
    /\ showfile = NoShowfile
    /\ output = <<>>
    /\ status2 = "none"
    /\ showfile2 = NoShowfile
    /\ value = NoValue
    /\ comma = FALSE
    /\ identifier = NoIdentifier
    /\ identifier2 = NoIdentifier
    /\ unit = NoValue
    /\ pairs = <<>>

Init ==
    /\ pc = "edit"
    /\ eol \in {LF, CRLF}
    /\ \/ input = <<>> /\ typist = Typist("headers", 0, 0, 0, 0)
       \/ input \in Scenarios /\ eol = LF
          /\ typist = Typist("scenario", 0, 0, 0, 0)
    /\ Blank

Unit == <<value, comma, identifier, identifier2, unit, pairs>>

Codec == <<status, rest, showfile, output, status2, showfile2>>

Type(t, phase, headers, sections, fields, breaks) ==
    /\ pc = "edit"
    /\ input' = input \o t
    /\ typist' = Typist(phase, headers, sections, fields, breaks)
    /\ UNCHANGED <<eol, pc, Codec, Unit>>

TypeHeader ==
    /\ typist.phase = "headers"
    /\ typist.headers < MaxHeaders
    /\ Type(<<"\\", " ">> \o HeaderText \o eol, "headers",
            typist.headers + 1, 0, 0, 0)

\* a line break: the separator after the headers, after a row, or after a
\* section terminator; right after the comma of a section it spoils the text
TypeBreak ==
    /\ typist.phase \in {"headers", "sep", "start", "row", "field",
                         "rowbreak", "semi", "secbreak"}
    /\ typist.breaks < MaxBreaks
    /\ Type(eol,
            CASE typist.phase \in {"headers", "sep"} -> "sep"
              [] typist.phase = "start" -> "done"
              [] typist.phase \in {"row", "field", "rowbreak"} -> "rowbreak"
              [] OTHER -> "secbreak",
            typist.headers, typist.sections, typist.fields, typist.breaks + 1)

\* the code of a section; without a separator before it, it spoils the text
TypeCode ==
    /\ typist.phase \in {"headers", "sep", "semi", "secbreak"}
    /\ typist.headers >= 1
    /\ typist.sections < MaxSections
    /\ \E c \in Codes :
          Type(c, IF typist.phase = "headers" THEN "done" ELSE "code",
               typist.headers, typist.sections + 1,
               typist.fields, typist.breaks)

\* the comma after the code of a section, or after a field
TypeComma ==
    /\ typist.phase \in {"code", "field"}
    /\ Type(<<",">>, IF typist.phase = "code" THEN "start" ELSE "row",
            typist.headers, typist.sections, typist.fields, typist.breaks)

\* a field of a row or, after a section terminator, text that is no section
TypeField ==
    /\ typist.phase \in {"start", "row", "rowbreak", "semi", "secbreak"}
    /\ typist.fields < MaxFields
    /\ \E f \in FieldTokens :
          Type(f,
               IF typist.phase \in {"start", "row", "rowbreak"} THEN "field"
               ELSE "done",
               typist.headers, typist.sections, typist.fields + 1, typist.breaks)

\* the terminator of a section; right after the comma of the section, with
\* no row, it spoils the text
TypeSemi ==
    /\ typist.phase \in {"start", "row", "field", "rowbreak"}
    /\ Type(<<";">>, IF typist.phase = "start" THEN "done" ELSE "semi",
            typist.headers, typist.sections, typist.fields, typist.breaks)

\* Showfile::from_str: Self::parse(input).finish()
Parse ==
    /\ pc = "edit"
    /\ \E r \in {Showfile_parse(input)} :
          /\ status' = r.st
          /\ rest' = IF r.st = "ok" THEN r.pos ELSE 0
          /\ showfile' = IF r.st = "ok" THEN r.val ELSE NoShowfile
    /\ pc' = "parsed"
    /\ UNCHANGED <<input, eol, typist, output, status2, showfile2, Unit>>

\* to_string() of the parsed Showfile
Display ==
    /\ pc = "parsed"
    /\ status = "ok"
    /\ \E o \in to_string(showfile) :
          /\ output' = o.text
          /\ pc' = IF o.st = "ok" THEN "written" ELSE "panicked"
    /\ UNCHANGED <<input, eol, typist, status, rest, showfile,
                   status2, showfile2, Unit>>

\* from_str of the text that to_string produced
Reparse ==
    /\ pc = "written"
    /\ \E r \in {Showfile_parse(output)} :
          /\ status2' = r.st
          /\ showfile2' = IF r.st = "ok" THEN r.val ELSE NoShowfile
    /\ pc' = "reparsed"
    /\ UNCHANGED <<input, eol, typist, status, rest, showfile, output, Unit>>

\* the test generated for one file: showfile_parser, then showfile_writer
generate_tests ==
    /\ pc = "edit"
    /\ \E r \in {showfile_parser(input)} :
          /\ status' = r.st
          /\ rest' = IF r.st = "ok" THEN r.pos ELSE 0
          /\ showfile' = IF r.st = "ok" THEN r.val ELSE NoShowfile
          /\ output' = IF r.st = "ok" THEN showfile_writer(r.val) ELSE <<>>
    /\ pc' = "tested"
    /\ UNCHANGED <<input, eol, typist, status2, showfile2, Unit>>

Next ==
    \/ TypeHeader
    \/ TypeBreak
    \/ TypeCode
    \/ TypeComma
    \/ TypeField
    \/ TypeSemi
    \/ Parse
    \/ Display
    \/ Reparse
    \/ generate_tests

Spec == Init /\ [][Next]_vars

(***************************************************************************)
(* One field on its own: the text of a field is typed character by         *)
(* character, or as a run of hex digits (one digit followed by zeros) long *)
(* enough to pass the 16 digits of a u64, then closed by a delimiter and   *)
(* handed to Value::parse and Display (showfile.rs) or to csv_field and    *)
(* Display (lib.rs).                                                       *)
(***************************************************************************)
MaxFieldLen == 4

MaxHexLen == 17

FieldAlphabet == {"0", "1", "F", "a", "n", "-", ".", "\""}

RunHeads == {"0", "1", "F", "a"}

Delimiters == {<<",">>, <<";">>, LF, CRLF}

\* a quoted field holding a backslash-escaped quote: "a\"b"
EscapedQuoteText == <<"\"", "a", "\\", "\"", "b", "\"">>

InitField ==
    /\ pc = "field"
    /\ eol = LF
    /\ input \in {<<>>, EscapedQuoteText}
    /\ typist = Typist("field", 0, 0, 0, 0)
    /\ Blank

TypeInField(t, phase) ==
    /\ pc = "field"
    /\ typist.phase = "field"
    /\ input' = input \o t
    /\ typist' = Typist(phase, 0, 0, typist.fields + 1, 0)
    /\ UNCHANGED <<eol, pc, Codec, Unit>>

TypeChar ==
    /\ Len(input) < MaxFieldLen
    /\ \E c \in FieldAlphabet : TypeInField(<<c>>, "field")

TypeRun ==
    /\ Len(input) >= 1
    /\ Len(input) < MaxHexLen
    /\ input[1] \in RunHeads
    /\ \A k \in 2..Len(input) : input[k] = "0"
    /\ TypeInField(<<"0">>, "field")

TypeDelimiter ==
    /\ \E d \in Delimiters : TypeInField(d, "delimited")

ParseWith(r, next) ==
    /\ pc = "field"
    /\ status' = r.st
    /\ rest' = IF r.st = "ok" THEN r.pos ELSE 0
    /\ value' = IF r.st = "ok" THEN r.val[1] ELSE NoValue
    /\ comma' = IF r.st = "ok" THEN r.val[2] ELSE FALSE
    /\ pc' = next
    /\ UNCHANGED <<input, eol, typist, showfile, output, status2, showfile2,
                   identifier, identifier2, unit, pairs>>

\* Value::parse(input)
ParseField == ParseWith(Value_parse(input, 1), "field_parsed")

\* csv_field(input)
ParseFieldLib == ParseWith(csv_field(input, 1), "lib_field_parsed")

FormatWith(from, text, next) ==
    /\ pc = from
    /\ status = "ok"
    /\ output' = text
    /\ pc' = next
    /\ UNCHANGED <<input, eol, typist, status, rest, showfile,
                   status2, showfile2, Unit>>

\* format!("{}", value) with the Display of showfile.rs
DisplayField == FormatWith("field_parsed", Value_fmt(value), "field_written")

\* format!("{}", value) with the Display of lib.rs
DisplayFieldLib ==
    FormatWith("lib_field_parsed", lib_Value_fmt(value), "lib_field_written")

NextField ==
    \/ TypeChar
    \/ TypeRun
    \/ TypeDelimiter
    \/ ParseField
    \/ ParseFieldLib
    \/ DisplayField
    \/ DisplayFieldLib

SpecField == InitField /\ [][NextField]_vars

(***************************************************************************)
(* One section identifier on its own: an alphanumeric code goes through    *)
(* SectionIdentifier::parse and to_code, and a known kind goes through     *)
(* to_code and from_code, with the tables of showfile.rs and of lib.rs.    *)
(***************************************************************************)
MaxCodeLen == 2

CodeAlphabet ==
    {"V", "T", "P", "L", "F", "G", "W", "S", "C", "M", "N",
     "Z", "E", "u", "1"}

CodesUpTo(n) == UNION {[1..k -> CodeAlphabet] : k \in 1..n}

KnownKinds ==
    {Known(n) : n \in {"Version", "Settings", "Head", "Fixture", "Palette",
                       "Group", "FX", "Playback", "CueStack", "ExecutePage",
                       "ExecuteItem"}}

lib_KnownKinds == (KnownKinds \ {Known("Settings")}) \cup {Known("File")}

InitCode ==
    /\ eol = LF
    /\ typist = Typist("code", 0, 0, 0, 0)
    /\ status = "none"
    /\ rest = 0
    /\ showfile = NoShowfile
    /\ output = <<>>
    /\ status2 = "none"
    /\ showfile2 = NoShowfile
    /\ value = NoValue
    /\ comma = FALSE
    /\ identifier2 = NoIdentifier
    /\ unit = NoValue
    /\ pairs = <<>>
    /\ \/ /\ pc \in {"code", "lib_code"}
          /\ input \in CodesUpTo(MaxCodeLen)
          /\ identifier = NoIdentifier
       \/ /\ pc = "kind"
          /\ input = <<>>
          /\ identifier \in KnownKinds
       \/ /\ pc = "lib_kind"
          /\ input = <<>>
          /\ identifier \in lib_KnownKinds

\* SectionIdentifier::parse on the code followed by the comma of a section
Identify(from, k, next) ==
    /\ pc = from
    /\ identifier' = k
    /\ pc' = next
    /\ UNCHANGED <<input, eol, typist, Codec, value, comma, identifier2,
                   unit, pairs>>

SectionIdentifier_parse_code ==
    Identify("code", SectionIdentifier_parse(input \o <<",">>, 1).val,
             "identified")

lib_parse_section_identifier ==
    Identify("lib_code", lib_from_code(input), "lib_identified")

Encode(from, c, next) ==
    /\ pc \in from
    /\ output' = c
    /\ pc' = next
    /\ UNCHANGED <<input, eol, typist, status, rest, showfile,
                   status2, showfile2, Unit>>

\* to_code() of a parsed identifier or of a known kind
SectionIdentifier_to_code ==
    \/ Encode({"identified"}, to_code(identifier), "coded")
    \/ Encode({"kind"}, to_code(identifier), "kind_coded")

lib_SectionIdentifier_to_code ==
    \/ Encode({"lib_identified"}, lib_to_code(identifier), "coded")
    \/ Encode({"lib_kind"}, lib_to_code(identifier), "lib_kind_coded")

Decode(from, k) ==
    /\ pc = from
    /\ identifier2' = k
    /\ pc' = "kind_decoded"
    /\ UNCHANGED <<input, eol, typist, Codec, value, comma, identifier,
                   unit, pairs>>

\* from_code of the code that to_code returned
SectionIdentifier_from_code == Decode("kind_coded", from_code(output))

lib_SectionIdentifier_from_code ==
    Decode("lib_kind_coded", lib_from_code(output))

NextCode ==
    \/ SectionIdentifier_parse_code
    \/ lib_parse_section_identifier
    \/ SectionIdentifier_to_code
    \/ lib_SectionIdentifier_to_code
    \/ SectionIdentifier_from_code
    \/ lib_SectionIdentifier_from_code

SpecCode == InitCode /\ [][NextCode]_vars

(***************************************************************************)
(* A showfile built by a program through the public constructors instead   *)
(* of being parsed: Header::new, Row::default (Row::new is private),       *)
(* Section::new, Version::to_section and Showfile::new; it is then written *)
(* with to_string and the text is parsed.  showfile holds the sections     *)
(* collected so far for Showfile::new.                                     *)
(***************************************************************************)
MaxBuilt == 2

MaxBuiltRows == 2

\* impl Default for Row
Row_default == Row_new(<<>>, FALSE, 0)

\* impl SectionData for Version: to_section
Version_to_section == Section_new(Known("Version"), <<>>, 0)

InitBuild ==
    /\ pc = "build"
    /\ eol = LF
    /\ input = <<>>
    /\ typist = Typist("build", 0, 0, 0, 0)
    /\ Blank

Collect(section) ==
    /\ pc = "build"
    /\ Len(showfile.sections) < MaxBuilt
    /\ showfile' = Showfile_new(<<HeaderText>>,
                                Append(showfile.sections, section))
    /\ UNCHANGED <<input, eol, typist, pc, status, rest, output,
                   status2, showfile2, Unit>>

\* version.to_section()
BuildVersion == Collect(Version_to_section)

\* Section::new(identifier, rows, trailing_newlines) over default rows
BuildSection ==
    \E id \in {Known("Version"), Unknown(<<"Z">>)} :
        \E n \in 0..MaxBuiltRows :
            \E nl \in 0..1 :
                Collect(Section_new(id, [k \in 1..n |-> Row_default], nl))

\* Showfile::new(headers, sections).to_string(), of at least one section
DisplayBuilt ==
    /\ pc = "build"
    /\ showfile.sections # <<>>
    /\ \E o \in to_string(showfile) :
          /\ output' = o.text
          /\ pc' = IF o.st = "ok" THEN "built_written" ELSE "built_panicked"
    /\ UNCHANGED <<input, eol, typist, status, rest, showfile,
                   status2, showfile2, Unit>>

\* from_str of the text written from the built showfile
ReparseBuilt ==
    /\ pc = "built_written"
    /\ \E r \in {Showfile_parse(output)} :
          /\ status2' = r.st
          /\ showfile2' = IF r.st = "ok" THEN r.val ELSE NoShowfile
    /\ pc' = "built_reparsed"
    /\ UNCHANGED <<input, eol, typist, status, rest, showfile, output, Unit>>

NextBuild ==
    \/ BuildVersion
    \/ BuildSection
    \/ DisplayBuilt
    \/ ReparseBuilt

SpecBuild == InitBuild /\ [][NextBuild]_vars

\* ---------------------------------------------------------------------
\* Section::parse and Row::parse applied on their own to texts typed token
\* by token, well formed or not.
\* ---------------------------------------------------------------------

MaxTokens == 5

UnitTokens ==
    {<<"V">>, <<"1">>, <<"\"", "A", "\"">>, <<",">>, <<";">>, LF}

InitUnit ==
    /\ pc = "tokens"
    /\ eol = LF
    /\ input = <<>>
    /\ typist = Typist("tokens", 0, 0, 0, 0)
    /\ Blank

TypeToken ==
    /\ pc = "tokens"
    /\ typist.fields < MaxTokens
    /\ \E t \in UnitTokens : input' = input \o t
    /\ typist' = Typist("tokens", 0, 0, typist.fields + 1, 0)
    /\ UNCHANGED <<eol, pc, Codec, Unit>>

\* Section::parse(&input)
ParseSection ==
    /\ pc = "tokens"
    /\ \E r \in {Section_parse(input, 1)} :
          /\ status' = r.st
          /\ rest' = r.pos
          /\ unit' = IF r.st = "ok" THEN r.val ELSE NoValue
    /\ pc' = "section_parsed"
    /\ UNCHANGED <<input, eol, typist, showfile, output, status2, showfile2,
                   value, comma, identifier, identifier2, pairs>>

\* Row::parse(&input) and csv_row(&input), with the pairs that
\* many1(Value::parse) hands to the closure
ParseRow ==
    /\ pc = "tokens"
    /\ \E lib \in BOOLEAN :
          /\ \E r \in {RowGrammar(input, 1, lib)} :
                /\ status' = r.st
                /\ rest' = r.pos
                /\ unit' = IF r.st = "ok" THEN r.val ELSE NoValue
          /\ \E f \in {many1_Value_parse(input, 1, <<>>, lib)} :
                pairs' = IF f.st = "ok" THEN f.val ELSE <<>>
          /\ pc' = IF lib THEN "lib_row_parsed" ELSE "row_parsed"
    /\ UNCHANGED <<input, eol, typist, showfile, output, status2, showfile2,
                   value, comma, identifier, identifier2>>

NextUnit ==
    \/ TypeToken
    \/ ParseSection
    \/ ParseRow

SpecUnit == InitUnit /\ [][NextUnit]_vars

TypeOK ==
    /\ pc \in {"edit", "parsed", "written", "panicked", "reparsed", "tested",
               "field", "field_parsed", "field_written",
               "lib_field_parsed", "lib_field_written",
               "code", "lib_code", "identified", "lib_identified", "coded",
               "kind", "lib_kind", "kind_coded", "lib_kind_coded",
               "kind_decoded",
               "build", "built_written", "built_panicked", "built_reparsed",
               "tokens", "section_parsed", "row_parsed", "lib_row_parsed"}
    /\ status \in {"none", "ok", "err", "inc"}
    /\ status2 \in {"none", "ok", "err", "inc"}

(***************************************************************************)
(* Properties.                                                             *)
(***************************************************************************)
Serialized == pc \in {"written", "tested"} /\ status = "ok"

Accepted == pc \in {"parsed", "written", "reparsed", "tested"} /\ status = "ok"

\* C1: for every text that parse accepts, the serialized text is the parsed
\* text, character for character (Display of showfile.rs after
\* Showfile::parse, and showfile_writer after showfile_parser).
RoundTrip == Serialized => output = input

\* The styles of the line breaks of a text: "\r\n" or a bare "\n".
LineBreaksOf(t) ==
    {IF p > 1 /\ t[p - 1] = "\r" THEN CRLF ELSE LF :
        p \in {q \in 1..Len(t) : t[q] = "\n"}}

FirstLineBreak(t) ==
    With(CHOOSE q \in 1..Len(t) :
             t[q] = "\n" /\ \A k \in 1..(q - 1) : t[k] # "\n",
         LAMBDA p : IF p > 1 /\ t[p - 1] = "\r" THEN CRLF ELSE LF)

\* C2: every line break the serializer writes has the line-ending sequence
\* of the first line break of the parsed source, LF or CRLF.
LineEndingKept == Serialized => LineBreaksOf(output) = {FirstLineBreak(input)}

EndToEndModel ==
    Showfile_new(
        <<<<"M", "y", "S", "h", "o", "w">>>>,
        <<Section_new(
            Known("Version"),
            <<Row_new(<<String(<<"M", "a", "g", "i", "c", "Q", " ", "1">>),
                        Hex(<<1, 0, 9, 0, 3, 0, 7>>, 8),
                        Hex(<<2>>, 4),
                        Hex(<<3>>, 4)>>,
                      FALSE, 0)>>,
            0)>>)

EndToEndOf(text) ==
    input = text =>
        /\ pc \in {"parsed", "written", "reparsed"} =>
              status = "ok" /\ showfile = EndToEndModel
        /\ pc \in {"written", "reparsed"} => output = input

\* C3 as stated: the header line followed directly by the section line, one
\* line break between them, parses to the model of the scenario and is
\* serialized to the identical text.
EndToEndDirect == EndToEndOf(EndToEnd)

\* C3, amended: the header line, a blank line and the section line parse to
\* the model of the scenario (one header "MyShow", one Version section, one
\* row String("MagicQ 1"), Hex(0x01090307,8), Hex(2,4), Hex(3,4)) and Display
\* writes the identical text.
EndToEndWithSeparator == EndToEndOf(EndToEndSeparated)

EndToEndWritten == input = EndToEndSeparated /\ pc = "written"

\* C4: the text serialized from a parsed model is accepted by parse and
\* parses to a model equal to the first one.
Idempotent == pc = "reparsed" => status2 = "ok" /\ showfile2 = showfile

\* The typed field without its delimiter.
FieldEnd(t) ==
    CHOOSE p \in 1..Len(t) :
        /\ t[p] \in {",", ";", "\r", "\n"}
        /\ \A k \in 1..(p - 1) : t[k] \notin {",", ";", "\r", "\n"}

FieldOf(t) == SubSeq(t, 1, FieldEnd(t) - 1)

FieldParsed ==
    /\ typist.phase = "delimited"
    /\ pc \in {"field_parsed", "field_written",
               "lib_field_parsed", "lib_field_written"}

FieldWritten ==
    /\ typist.phase = "delimited"
    /\ pc \in {"field_written", "lib_field_written"}

HexWidthOf(f) ==
    /\ status = "ok"
    /\ value = Hex(StripLeading([k \in 1..Len(f) |-> to_digit(f[k])], 0),
                   Len(f))
    /\ FieldWritten =>
          output = [k \in 1..Len(f) |->
                        IF Len(f) = 16
                        THEN UpperDigits[to_digit(f[k]) + 1]
                        ELSE LowerDigits[to_digit(f[k]) + 1]]

\* C5: a field of n hex digits followed by a delimiter parses to Hex(value, n)
\* and is written as the same n digits, upper case if n = 16 and lower case
\* otherwise.
HexWidthKept ==
    (FieldParsed /\ FieldOf(input) # <<>>
        /\ \A k \in 1..Len(FieldOf(input)) : FieldOf(input)[k] \in HexDigits)
    => HexWidthOf(FieldOf(input))

NaNOf(text, neg) ==
    FieldOf(input) = text =>
        /\ status = "ok"
        /\ value = NaN(neg)
        /\ FieldWritten => output = text

\* C6: the field nan parses to a positive NaN and is written nan; the field
\* -nan parses to a negative NaN and is written -nan.
NaNSignKept ==
    FieldParsed =>
        /\ NaNOf(<<"n", "a", "n">>, FALSE)
        /\ NaNOf(<<"-", "n", "a", "n">>, TRUE)

KnownCodes == {to_code(k) : k \in KnownKinds}

\* C7: to_code(from_code(c)) = c for every alphanumeric code c, a code
\* outside the table becoming Unknown(c); the eleven known kinds have
\* pairwise distinct codes and from_code(to_code(k)) = k.
CodeMappingRoundTrip ==
    /\ pc = "coded" =>
          /\ output = input
          /\ input \notin KnownCodes => identifier = Unknown(input)
          /\ input \in KnownCodes => identifier \in KnownKinds \cup lib_KnownKinds
    /\ pc = "kind_decoded" => identifier2 = identifier
    /\ pc \in {"kind_coded", "lib_kind_coded"} =>
          \A k \in (KnownKinds \cup lib_KnownKinds) \ {identifier} :
              (k.id \in {"Settings", "File"}
                  /\ identifier.id \in {"Settings", "File"})
              \/ output # (IF k.id = "File" THEN lib_to_code(k) ELSE to_code(k))

UnknownCodeWritten ==
    pc = "coded" /\ input = <<"E", "1">> /\ identifier = Unknown(<<"E", "1">>)

(***************************************************************************)
(* The rows and sections of a text, read off the text itself: the body     *)
(* starts at the first line that is neither a header line nor empty, a row *)
(* ends at a ';' or a line break that follows a field or a comma, and a    *)
(* section ends at a ';'.  (No String of the texts explored holds a ';',   *)
(* a ',' or a line break.)                                                 *)
(***************************************************************************)
SectionStart(t, p) ==
    (p = 1 \/ t[p - 1] = "\n") /\ t[p] \notin {"\\", "\r", "\n"}

BodyStart(t) ==
    CHOOSE p \in 1..(Len(t) + 1) :
        /\ (p = Len(t) + 1) \/ SectionStart(t, p)
        /\ \A q \in 1..(p - 1) : ~SectionStart(t, q)

RowEnds(t) ==
    {p \in (BodyStart(t) + 1)..Len(t) :
        t[p] \in {";", "\r", "\n"} /\ t[p - 1] \notin {";", "\r", "\n"}}

SectionEnds(t) == {p \in BodyStart(t)..Len(t) : t[p] = ";"}

Sorted(S) ==
    [k \in 1..Cardinality(S) |->
        CHOOSE p \in S : Cardinality({q \in S : q < p}) = k - 1]

\* the number of consecutive line breaks of t from position p
RECURSIVE BreaksAt(_, _)
BreaksAt(t, p) ==
    IF p <= Len(t) /\ t[p] = "\n" THEN 1 + BreaksAt(t, p + 1)
    ELSE IF p < Len(t) /\ t[p] = "\r" /\ t[p + 1] = "\n"
         THEN 1 + BreaksAt(t, p + 2)
    ELSE 0

OverRowEnds(t, F(_)) ==
    With(Sorted(RowEnds(t)), LAMBDA ends :
        [k \in 1..Len(ends) |-> F(ends[k])])

OverSectionEnds(t, F(_)) ==
    With(Sorted(SectionEnds(t)), LAMBDA ends :
        [k \in 1..Len(ends) |-> F(ends[k])])

RECURSIVE RowsOf(_, _)
RowsOf(secs, i) ==
    IF i > Len(secs) THEN <<>> ELSE secs[i].rows \o RowsOf(secs, i + 1)

OverRows(sf, F(_)) ==
    With(RowsOf(sf.sections, 1), LAMBDA rows :
        [k \in 1..Len(rows) |-> F(rows[k])])

CommasIn(t) == OverRowEnds(t, LAMBDA p : t[p - 1] = ",")

CommasOf(sf) == OverRows(sf, LAMBDA row : row.trailing_comma)

TrailingCommaText(flag) ==
    <<"\\", " ", "h">> \o LF \o LF
    \o <<"V", ",", "\"", "A", "\"", ",", "1">>
    \o (IF flag THEN <<",">> ELSE <<>>) \o <<";">>

TrailingCommaModel(flag) ==
    Showfile_new(<<<<"h">>>>,
        <<Section_new(Known("Version"),
                      <<Row_new(<<String(<<"A">>), Hex(<<1>>, 1)>>, flag, 0)>>,
                      0)>>)

\* C8: the trailing-comma flag of every parsed row is true exactly when a
\* comma stands right before the end of the row in the text; the rows
\* "A",1,; and "A",1; parse to rows that differ in that flag only; and the
\* serializer writes a comma after the last field exactly when the flag is
\* set, so each of the two texts is written back as it was.
TrailingCommaKept ==
    /\ Accepted =>
          /\ CommasOf(showfile) = CommasIn(input)
          /\ pc # "parsed" => CommasIn(output) = CommasOf(showfile)
    /\ \A flag \in BOOLEAN :
          (input = TrailingCommaText(flag)
              /\ pc \in {"parsed", "written", "reparsed"})
          => /\ status = "ok"
             /\ showfile = TrailingCommaModel(flag)
             /\ pc # "parsed" => output = input

TrailingCommaWritten ==
    /\ input = TrailingCommaText(TRUE)
    /\ pc = "written"
    /\ showfile.sections[1].rows[1].trailing_comma

RowBreaksIn(t) == OverRowEnds(t, LAMBDA p : BreaksAt(t, p))

SectionBreaksIn(t) == OverSectionEnds(t, LAMBDA p : BreaksAt(t, p + 1))

RowBreaksOf(sf) == OverRows(sf, LAMBDA row : row.trailing_newlines)

SectionBreaksOf(sf) ==
    [k \in 1..Len(sf.sections) |-> sf.sections[k].trailing_newlines]

\* C9: a run of n line breaks after a row, or after the ';' of a section, is
\* the trailing-newline count n of that row or section, makes no empty row
\* and no empty section, and is written back as n line breaks.
BlankLinesKept ==
    Accepted =>
        /\ RowBreaksOf(showfile) = RowBreaksIn(input)
        /\ SectionBreaksOf(showfile) = SectionBreaksIn(input)
        /\ \A k \in 1..Len(showfile.sections) :
              /\ showfile.sections[k].rows # <<>>
              /\ \A j \in 1..Len(showfile.sections[k].rows) :
                    showfile.sections[k].rows[j].values # <<>>
        /\ pc # "parsed" =>
              /\ RowBreaksIn(output) = RowBreaksOf(showfile)
              /\ SectionBreaksIn(output) = SectionBreaksOf(showfile)

BlankLinesWritten ==
    /\ input = BlankLinesText(LF)
    /\ pc = "written"
    /\ SectionBreaksIn(output) = <<2, 1>>
    /\ RowBreaksIn(output) = <<2, 0, 0>>

\* The text is headers, a separator and complete sections up to its end.
WellFormed ==
    \/ typist.phase \in {"sep", "semi", "secbreak"} /\ typist.headers >= 1
    \/ input \in {EndToEndSeparated, PrecisionText, MixedText,
                  BlankLinesText(LF), BlankLinesText(CRLF)}

\* C10: from_str returns a Showfile only when the headers, the separator and
\* every section up to the end of the input have parsed and no input
\* remains; otherwise it returns an error, and no model.
NoPartialShowfile ==
    pc \in {"parsed", "written", "reparsed"} =>
        IF WellFormed
        THEN /\ status = "ok"
             /\ rest = Len(input) + 1
             /\ Len(showfile.sections) = Cardinality(SectionEnds(input))
        ELSE /\ status = "err"
             /\ showfile = NoShowfile

\* Showfile::parse itself never yields a model for a text that is not well
\* formed: its result is then Err::Error or Err::Incomplete.
NoPartialModel ==
    pc \in {"parsed", "written", "reparsed"} =>
        IF WellFormed
        THEN /\ status = "ok"
             /\ rest = Len(input) + 1
             /\ Len(showfile.sections) = Cardinality(SectionEnds(input))
        ELSE /\ status \in {"err", "inc"}
             /\ showfile = NoShowfile

\* C11: for every Showfile that parse returns, to_string completes without
\* panicking: no parsed row is without values, so the len() - 1 of Row::fmt
\* never overflows.
SerializeTotal ==
    /\ pc # "panicked"
    /\ Accepted => ~Showfile_fmt_overflows(showfile)

SerializeCompleted ==
    /\ pc = "written"
    /\ Len(showfile.sections) = 2
    /\ output # <<>>

\* C12: the alternatives are tried in the order String, Hex, Float: a field
\* of one or more hex digits, of any length, followed by a delimiter, is a
\* Hex whose width is its number of digits, and never a Float.
HexBeforeFloat ==
    (FieldParsed /\ FieldOf(input) # <<>>
        /\ \A k \in 1..Len(FieldOf(input)) : FieldOf(input)[k] \in HexDigits)
    => /\ status = "ok"
       /\ value.kind = "Hex"
       /\ value.w = Len(FieldOf(input))

StringOf(text, content) ==
    FieldOf(input) = text =>
        /\ status = "ok"
        /\ rest = Len(text) + (IF comma THEN 2 ELSE 1)
        /\ value = String(content)
        /\ FieldWritten => output = text

\* C13: a quoted field with backslash-escaped quotes is one String from the
\* opening quote to the last, unescaped, quote, and is written back as it
\* was; the literal "" is the empty String and is written back as "".
EscapedQuotesKept ==
    FieldParsed =>
        /\ StringOf(EscapedQuoteText, <<"a", "\\", "\"", "b">>)
        /\ StringOf(<<"\"", "\"">>, <<>>)

\* C14: no Row without values and no Section without rows can be built
\* through the public constructors, so that to_string never panics on a
\* built showfile and never writes a text that parse rejects.
NoEmptyBuilt ==
    pc \in {"build", "built_written", "built_panicked", "built_reparsed"} =>
        /\ \A k \in 1..Len(showfile.sections) :
              /\ showfile.sections[k].rows # <<>>
              /\ \A j \in 1..Len(showfile.sections[k].rows) :
                    showfile.sections[k].rows[j].values # <<>>
        /\ pc # "built_panicked"
        /\ pc = "built_reparsed" => status2 = "ok"

\* the end of the alphanumeric run that opens the text t
IdentifierEnd(t) ==
    CHOOSE p \in 1..(Len(t) + 1) :
        /\ \A q \in 1..(p - 1) : t[q] \in Alphanumerics
        /\ p <= Len(t) => t[p] \notin Alphanumerics

LacksIdentifier(t) == IdentifierEnd(t) = 1

LacksComma(t) ==
    IdentifierEnd(t) > Len(t) \/ t[IdentifierEnd(t)] # ","

\* nothing a field can start with follows the comma
LacksRow(t) ==
    \/ IdentifierEnd(t) + 1 > Len(t)
    \/ t[IdentifierEnd(t) + 1] \notin {"1", "\""}

LacksTerminator(t) == \A p \in 1..Len(t) : t[p] # ";"

\* C15: Section::parse fails, and yields no Section, on every text that
\* lacks the identifier, the comma after it, a row after the comma, or
\* the ";" terminator (the text ending first included).
SectionRequired ==
    (/\ pc = "section_parsed"
     /\ \/ LacksIdentifier(input)
        \/ LacksComma(input)
        \/ LacksRow(input)
        \/ LacksTerminator(input))
    => /\ status \in {"err", "inc"}
       /\ unit = NoValue

SectionRefused ==
    /\ pc = "section_parsed"
    /\ input = <<"V", ",", ";">>
    /\ status = "err"

\* C16: every parsed row holds at least one field; its trailing-newline
\* count is 0 exactly when the row ends at a ";" that is left in place,
\* and is otherwise the number of consecutive line breaks that end it; the
\* rows are as many as the row ends of the text, so no blank line is a row.
RowsDelimited ==
    Accepted =>
        /\ OverRows(showfile, LAMBDA row : row.values # <<>>)
              = OverRowEnds(input, LAMBDA p : TRUE)
        /\ OverRows(showfile, LAMBDA row :
                <<row.trailing_newlines = 0, row.trailing_newlines>>)
              = OverRowEnds(input, LAMBDA p :
                    <<input[p] = ";", BreaksAt(input, p)>>)

RowsDelimitedBothWays ==
    /\ input = BlankLinesText(CRLF)
    /\ pc = "tested"
    /\ RowBreaksOf(showfile) = <<2, 0, 0>>

\* the line breaks between the last header line and the first section of t
\* (or its end), the header lines being n
SeparatorBreaks(t, n) ==
    Cardinality({p \in 1..(BodyStart(t) - 1) : t[p] = "\n"}) - n

\* C17: the k >= 1 line breaks that separate the header lines from the
\* first section of an accepted text are k line breaks in the serialized
\* text as well.
SeparatorKept ==
    Serialized =>
        SeparatorBreaks(output, Len(showfile.headers))
            = SeparatorBreaks(input, Len(showfile.headers))

NotCarriageReturn(c) == c # "\r"

\* the text that the row parser consumed
ConsumedText == SubSeq(input, 1, rest - 1)

\* C18: in every parsed row each field but the last was followed by a
\* consumed comma, so the flag of the last field is the only one that
\* Row::parse has to keep, and writing a comma after every field but the
\* last gives back the fields and commas of the source.
CommasImplied ==
    (pc \in {"row_parsed", "lib_row_parsed"} /\ status = "ok") =>
        /\ pairs # <<>>
        /\ unit.values = [k \in 1..Len(pairs) |-> pairs[k][1]]
        /\ \A k \in 1..(Len(pairs) - 1) : pairs[k][2]
        /\ unit.trailing_comma = pairs[Len(pairs)][2]
        /\ pc = "row_parsed" => Row_fmt(unit) = ConsumedText
        /\ pc = "lib_row_parsed" =>
              SelectSeq(writer_row(<<>>, unit), NotCarriageReturn)
                  = ConsumedText

CommasConsumed ==
    /\ pc = "row_parsed"
    /\ status = "ok"
    /\ Len(pairs) = 2
    /\ pairs[1][2]
    /\ ~unit.trailing_comma
    /\ unit.trailing_newlines = 1

====
